---- MODULE Spec2Model ----
(***************************************************************************)
(* Model of scripts/bookmarks.ts: the bookmark-tree navigation loop        *)
(* (bookmarks / historyStack / buildChoices / the while(true) loop) and    *)
(* the favicon cache (loadFavicons / databaseLockedPrompt) with its        *)
(* shortcut-driven refresh.                                                *)
(*                                                                         *)
(* External collaborators (Kit's picker, sqlite3, the db() store) are      *)
(* modelled by what the script observes of them: the value a prompt        *)
(* resolves to, the (err, rows) pair a query calls back with, and the      *)
(* field cache.favicons.                                                   *)
(***************************************************************************)
EXTENDS Integers, Sequences, FiniteSets, TLC

(***************************************************************************)
(* Bounds of the model.                                                    *)
(***************************************************************************)
\* image_data blobs are 1..MaxImage
MaxImage == 1
\* a query answers with at most MaxRows rows
MaxRows == 1
\* at most MaxRetries nested "Retry" re-invocations inside one load
MaxRetries == 1
\* at most MaxHandlers shortcut handlers (onPress) in flight at once
MaxHandlers == 1

(***************************************************************************)
(* lib/models.ts: the tagged union Folder | Bookmark.  A tree is the       *)
(* children of roots.bookmark_bar plus its nodes, addressed by identity    *)
(* (the index into nodes plays the part of the object reference).          *)
(***************************************************************************)
Folder(name, children) ==
    [type |-> "folder", name |-> name, url |-> "undefined", children |-> children]

Bookmark(name, url) ==
    [type |-> "url", name |-> name, url |-> url, children |-> <<>>]

\* The example of the end-to-end property: {A: folder[B], C}.
TreeExample ==
    [bookmark_bar |-> <<1, 3>>,
     nodes |-> << Folder("A", <<2>>),
                  Bookmark("B", "http://x"),
                  Bookmark("C", "http://y") >>]

\* Nested folders, an empty folder, and two sibling folders of one name,
\* the second of them empty.
TreeNested ==
    [bookmark_bar |-> <<1, 2, 3>>,
     nodes |-> << Folder("P", <<4, 6>>),
                  Folder("P", <<>>),
                  Bookmark("U", "http://x"),
                  Folder("Q", <<5>>),
                  Bookmark("L", "http://x"),
                  Folder("E", <<>>) >>]

\* A link and a later sibling folder of one name.
TreeShadowed ==
    [bookmark_bar |-> <<1, 2>>,
     nodes |-> << Bookmark("N", "http://x"),
                  Folder("N", <<3>>),
                  Bookmark("K", "http://y") >>]

Trees == {TreeExample, TreeNested, TreeShadowed}

(***************************************************************************)
(* Favicon values.  cache.favicons is null or a plain object; a load       *)
(* returns a plain object or (degraded) a Map instance.                    *)
(***************************************************************************)
PageUrls == {"http://x"}
Images == 1..MaxImage

NoEntries == [u \in {} |-> <<>>]
Null == [type |-> "null", entries |-> NoEntries]
Object(entries) == [type |-> "object", entries |-> entries]
NewMap == [type |-> "Map", entries |-> NoEntries]
NoValue == [type |-> "none", entries |-> NoEntries]

Rows == UNION {[1..n -> [page_url : PageUrls, image_data : Images]] : n \in 0..MaxRows}

\* image_data.toString("base64") behind the data-URI prefix
B64(image_data) == <<"data:image/jpeg;base64,", image_data>>
NoImg == <<>>

\* Map.prototype.set
MapSet(agg, k, v) == [x \in (DOMAIN agg) \cup {k} |-> IF x = k THEN v ELSE agg[x]]

RECURSIVE Reduce(_, _)
Reduce(rows, agg) ==
    IF rows = <<>> THEN agg
    ELSE Reduce(Tail(rows), MapSet(agg, Head(rows).page_url, B64(Head(rows).image_data)))

\* Object.fromEntries(result.reduce(..., new Map()).entries())
B64Data(rows) == Object(Reduce(rows, NoEntries))

\* favicons[item.url]: a property read; a Map instance has no such property
Lookup(fav, url) ==
    IF fav.type = "object" /\ url \in DOMAIN fav.entries THEN fav.entries[url] ELSE NoImg

VARIABLES
    root,           \* the parsed Bookmarks file (never mutated)
    cache,          \* cache.favicons, the durable slot
    favicons,       \* const favicons (line 23)
    bookmarks,      \* let bookmarks: a reference to an array
    historyStack,   \* const historyStack
    lastSelection,  \* const lastSelection of the last loop iteration
    choices,        \* the list the picker shows (arg / setChoices)
    pc,             \* "startup", "arg", "done" or "crashed"
    calls,          \* per task, its stack of loadFavicons frames
    opened,         \* the URLs handed to exec(`open ...`)
    net,            \* observer: descends minus go-backs of this run
    undo,           \* observer: the state before the last descend
    lastCall,       \* observer: the last load that returned or failed
    lastLoaded      \* observer: the slot at the start of the run, then the
                    \* mapping of the last successful query

vars == <<root, cache, favicons, bookmarks, historyStack, lastSelection,
          choices, pc, calls, opened, net, undo, lastCall, lastLoaded>>

Tasks == 0..MaxHandlers
Handlers == 1..MaxHandlers

(***************************************************************************)
(* Array references.  bookmarks and the entries of historyStack are        *)
(* references to children arrays of the tree, or a `[]` literal, or        *)
(* undefined.                                                              *)
(***************************************************************************)
ChildrenOf(owner) == [kind |-> "children", owner |-> owner]
Literal == [kind |-> "literal", owner |-> 0]
Undefined == [kind |-> "undefined", owner |-> 0]
Unset == [kind |-> "unset", owner |-> 0]

Items(ref) ==
    IF ref.kind = "children"
    THEN IF ref.owner = 0 THEN root.bookmark_bar ELSE root.nodes[ref.owner].children
    ELSE <<>>

GoBackValue == [kind |-> "go-back", id |-> 0]
ItemValue(id) == [kind |-> "item", id |-> id]
NoSelection == [kind |-> "none", id |-> 0]

(***************************************************************************)
(* buildChoices                                                            *)
(***************************************************************************)
createChoice(id) ==
    LET item == root.nodes[id] IN
    IF item.type = "folder"
    THEN [name |-> item.name, description |-> "", img |-> NoImg, value |-> ItemValue(id)]
    ELSE [name |-> item.name, description |-> item.url,
          img |-> Lookup(favicons, item.url), value |-> ItemValue(id)]

GoBackChoice == [name |-> "..", description |-> "Go back", img |-> NoImg, value |-> GoBackValue]

HasHistoryAlways == TRUE

\* historyStack.length > 0
HasHistory == Len(historyStack) > 0

buildChoicesBackLast ==
    LET items == Items(bookmarks)
        mapped == [i \in 1..Len(items) |-> createChoice(items[i])]
    IN IF HasHistory THEN mapped \o <<GoBackChoice>> ELSE mapped

buildChoices ==
    LET items == Items(bookmarks)
        mapped == [i \in 1..Len(items) |-> createChoice(items[i])]
    IN IF HasHistory THEN <<GoBackChoice>> \o mapped ELSE mapped

(***************************************************************************)
(* Array.prototype.pop and Array.prototype.find                            *)
(***************************************************************************)
PopFirst(stack) ==
    IF Len(stack) = 0 THEN [value |-> Undefined, rest |-> stack]
    ELSE [value |-> stack[1], rest |-> SubSeq(stack, 1, Len(stack) - 1)]

PopPeek(stack) ==
    IF Len(stack) = 0 THEN [value |-> Undefined, rest |-> stack]
    ELSE [value |-> stack[Len(stack)], rest |-> stack]

Pop(stack) ==
    IF Len(stack) = 0 THEN [value |-> Undefined, rest |-> stack]
    ELSE [value |-> stack[Len(stack)], rest |-> SubSeq(stack, 1, Len(stack) - 1)]

\* bookmarks.find((bookmark) => bookmark.name === name): the first match, 0 for undefined
Find(items, name) ==
    LET hits == {i \in 1..Len(items) : root.nodes[items[i]].name = name} IN
    IF hits = {} THEN 0
    ELSE items[CHOOSE i \in hits : \A j \in hits : i <= j]

FoundChildrenStays(name) == bookmarks

\* bookmarks.find(...)!.children ?? []
FoundChildren(name) ==
    LET found == Find(Items(bookmarks), name) IN
    IF found = 0 THEN Undefined
    ELSE IF root.nodes[found].type = "folder" THEN ChildrenOf(found)
    ELSE Literal

(***************************************************************************)
(* Observers                                                               *)
(***************************************************************************)
NoUndo == [state |-> "none", bookmarks |-> Unset, historyStack |-> <<>>]

NoCall ==
    [caller |-> "none", how |-> "none", status |-> "none", frames |-> <<>>,
     result |-> NoValue, rows |-> <<>>, slotBefore |-> Null, prev |-> [how |-> "none", slot |-> Null]]

\* the mapping a response stands for: per URL the image of its last row
ResponseEntries(rows) ==
    [u \in {rows[i].page_url : i \in DOMAIN rows} |->
        LET last == CHOOSE i \in DOMAIN rows :
                        /\ rows[i].page_url = u
                        /\ \A j \in DOMAIN rows : rows[j].page_url = u => j <= i
        IN B64(rows[last].image_data)]

Idle == [t \in Tasks |-> <<>>]

\* a lock prompt (select) is open and covers the bookmark list
LockPromptOpen == \E t \in Tasks : calls[t] # <<>> /\ calls[t][Len(calls[t])].at = "select"

Init ==
    /\ root \in Trees
    /\ cache \in {Null} \cup {B64Data(r) : r \in Rows}
    /\ favicons = NoValue
    /\ bookmarks = Unset
    /\ historyStack = <<>>
    /\ lastSelection = NoSelection
    /\ choices = <<>>
    /\ pc = "startup"
    /\ calls = Idle
    /\ opened = <<>>
    /\ net = 0
    /\ undo = NoUndo
    /\ lastCall = NoCall
    /\ lastLoaded = cache

(***************************************************************************)
(* The loop of lines 65-106: one action per branch taken on the value the  *)
(* picker resolved to.  The loop then runs on to the next arg(...), which  *)
(* rebuilds the list.                                                      *)
(***************************************************************************)
Picked(i) ==
    /\ pc = "arg"
    /\ ~LockPromptOpen
    /\ i \in 1..Len(choices)

\* `continue` and the next arg(..., buildChoices()); bookmarks.map throws on undefined
Redisplay ==
    IF bookmarks'.kind = "undefined"
    THEN /\ pc' = "crashed"
         /\ calls' = Idle
         /\ choices' = choices
    ELSE /\ pc' = "arg"
         /\ calls' = calls
         /\ choices' = buildChoices'

GoBack(i) ==
    /\ Picked(i)
    /\ choices[i].value.kind = "go-back"
    /\ lastSelection' = choices[i].value
    /\ bookmarks' = Pop(historyStack).value
    /\ historyStack' = Pop(historyStack).rest
    /\ net' = net - 1
    /\ undo' = IF undo.state = "descended" THEN [undo EXCEPT !.state = "returned"] ELSE NoUndo
    /\ UNCHANGED <<root, cache, favicons, opened, lastCall, lastLoaded>>
    /\ Redisplay

Descend(i) ==
    /\ Picked(i)
    /\ choices[i].value.kind = "item"
    /\ root.nodes[choices[i].value.id].type = "folder"
    /\ lastSelection' = choices[i].value
    /\ historyStack' = Append(historyStack, bookmarks)
    /\ bookmarks' = FoundChildren(root.nodes[choices[i].value.id].name)
    /\ net' = net + 1
    /\ undo' = [state |-> "descended", bookmarks |-> bookmarks, historyStack |-> historyStack]
    /\ UNCHANGED <<root, cache, favicons, opened, lastCall, lastLoaded>>
    /\ Redisplay

OpenWithoutBreak(i) ==
    /\ Picked(i)
    /\ choices[i].value.kind = "item"
    /\ root.nodes[choices[i].value.id].type = "url"
    /\ lastSelection' = choices[i].value
    /\ opened' = Append(opened, root.nodes[choices[i].value.id].url)
    /\ undo' = NoUndo
    /\ UNCHANGED <<root, cache, favicons, bookmarks, historyStack, choices, calls,
                   net, lastCall, lastLoaded, pc>>

\* lines 100-103: exec(`open "${lastSelection.url}"`); break
Open(i) ==
    /\ Picked(i)
    /\ choices[i].value.kind = "item"
    /\ root.nodes[choices[i].value.id].type = "url"
    /\ lastSelection' = choices[i].value
    /\ opened' = Append(opened, root.nodes[choices[i].value.id].url)
    /\ pc' = "done"
    /\ undo' = NoUndo
    /\ UNCHANGED <<root, cache, favicons, bookmarks, historyStack, choices, calls,
                   net, lastCall, lastLoaded>>

(***************************************************************************)
(* loadFavicons / databaseLockedPrompt.  A task (0: the script's top       *)
(* level, 1..MaxHandlers: an onPress handler of the shortcut) holds a      *)
(* stack of loadFavicons frames; a frame waits at "db.all" (the query),    *)
(* at "select" (the lock prompt) or at "retry" (the nested load).          *)
(***************************************************************************)
CacheHitIgnoresFlag(allowCached) == cache.type # "null"

CacheHitNever(allowCached) == FALSE

\* if (allowCached && cache.favicons)
CacheHit(allowCached) == allowCached /\ cache.type # "null"

Frame(allowCached, hit) ==
    [allowCached |-> allowCached,
     hadCache |-> cache.type # "null",
     queries |-> IF hit THEN 0 ELSE 1,
     conn |-> IF hit THEN "none" ELSE "open",
     got |-> "nothing",
     at |-> IF hit THEN "return" ELSE "db.all"]

\* What the query calls back with: rows, SQLITE_BUSY, or another error.
Outcomes ==
    {[kind |-> "rows", rows |-> r] : r \in Rows}
    \cup {[kind |-> k, rows |-> <<>>] : k \in {"busy", "error"}}

IsBusyAnyError(outcome) == TRUE

IsBusyNever(outcome) == FALSE

\* "code" in err && err.code === "SQLITE_BUSY"
IsBusy(outcome) == outcome.kind = "busy"

\* the callback of db.all (lines 159-168): the settle calls it makes, in order
QueryCallback(outcome) ==
    (IF outcome.kind # "rows"
     THEN (IF IsBusy(outcome) THEN <<[op |-> "resolve", with |-> "locked"]>> ELSE <<>>)
          \o <<[op |-> "reject", with |-> "err"]>>
     ELSE <<>>)
    \o <<[op |-> "resolve", with |-> "rows"]>>

\* a Promise keeps the first settlement; later resolve/reject calls are ignored
Settled(settleCalls) == Head(settleCalls)

PersistedAlways(how, value) == value

PersistedNever(how, value) == cache

\* cache.favicons after a load that ended `how` with `value`: only the
\* path through lines 180-190 assigns it
Persisted(how, value) == IF how = "rows" THEN value ELSE cache

Event(t, how, status, frames, result, rows) ==
    [caller |-> IF t = 0 THEN "startup" ELSE "shortcut",
     how |-> how, status |-> status, frames |-> frames, result |-> result,
     rows |-> rows,
     slotBefore |-> IF how = "rows" THEN Null ELSE cache,
     prev |-> IF how = "cached"
              THEN [how |-> lastCall.how, slot |-> lastCall.slotBefore]
              ELSE [how |-> "none", slot |-> Null]]

\* The load of task t has returned or failed: what its caller does next.
\* Task 0 goes on with lines 23-29 and the first arg(...); a handler goes
\* on with setChoices(buildChoices()) (lines 77-78).  A rejection leaves
\* the handler early; an unhandled rejection may end the process.
Finish(t, event, crash) ==
    /\ lastCall' = event
    /\ IF event.status = "failed"
       THEN /\ pc' = IF t = 0 \/ crash THEN "crashed" ELSE pc
            /\ calls' = IF t = 0 \/ crash THEN Idle ELSE [calls EXCEPT ![t] = <<>>]
            /\ UNCHANGED <<favicons, bookmarks, historyStack, choices>>
       ELSE /\ calls' = [calls EXCEPT ![t] = <<>>]
            /\ IF t = 0
               THEN /\ favicons' = event.result
                    /\ bookmarks' = ChildrenOf(0)
                    /\ historyStack' = <<>>
                    /\ pc' = "arg"
                    /\ choices' = buildChoices'
               ELSE /\ choices' = buildChoices
                    /\ UNCHANGED <<favicons, bookmarks, historyStack, pc>>

\* loadFavicons(faviconsDbFile, allowCached) called by task t above the
\* frames `below`, run up to its first await (lines 140-170)
LoadFavicons(t, below, allowCached) ==
    IF CacheHit(allowCached)
    THEN /\ Finish(t, Event(t, "cached", "returned",
                            Append(below, Frame(allowCached, TRUE)), cache, <<>>), FALSE)
         /\ UNCHANGED cache
    ELSE /\ calls' = [calls EXCEPT ![t] = Append(below, Frame(allowCached, FALSE))]
         /\ UNCHANGED <<cache, favicons, bookmarks, historyStack, choices, pc, lastCall>>

\* line 23: const favicons = await loadFavicons(faviconsDbFile)
Startup ==
    /\ UNCHANGED <<root, lastSelection, opened, net, undo, lastLoaded>>
    /\ pc = "startup"
    /\ calls[0] = <<>>
    /\ LoadFavicons(0, <<>>, TRUE)

ShortcutAllowsCached == TRUE

\* the allowCached argument of the shortcut: loadFavicons(faviconsDbFile, false)
ShortcutAllowCached == FALSE

\* lines 75-76: ctrl+u pressed on the bookmark list
PressShortcut ==
    /\ UNCHANGED <<root, lastSelection, opened, net, undo, lastLoaded>>
    /\ pc = "arg"
    /\ ~LockPromptOpen
    /\ \E h \in Handlers :
        /\ calls[h] = <<>>
        /\ \A g \in Handlers : g < h => calls[g] # <<>>
        /\ LoadFavicons(h, <<>>, ShortcutAllowCached)

Top(t) == calls[t][Len(calls[t])]

SetTop(t, frame) == [calls EXCEPT ![t] = [@ EXCEPT ![Len(@)] = frame]]

Closed(frames) == [frames EXCEPT ![Len(frames)].conn = "closed", ![Len(frames)].got = "rows"]

\* the query of task t calls back (lines 159-193).  A rejection that
\* nothing handles may end the process (crash).
QueryResult(t, outcome, crash) ==
    /\ UNCHANGED <<root, lastSelection, opened, net, undo>>
    /\ pc # "crashed"
    /\ calls[t] # <<>>
    /\ Top(t).at = "db.all"
    /\ LET settled == Settled(QueryCallback(outcome)) IN
       IF settled.op = "reject"
       THEN \* the await throws: db.close() and setHint("") are not reached
            /\ Finish(t, Event(t, outcome.kind, "failed",
                                  [calls[t] EXCEPT ![Len(calls[t])].got = outcome.kind],
                                  NoValue, <<>>), crash)
            /\ UNCHANGED <<cache, lastLoaded>>
       ELSE IF settled.with = "locked"
       THEN \* db.close(); setHint(""); databaseLockedPrompt: select(...)
            /\ ~crash
            /\ calls' = SetTop(t, [Top(t) EXCEPT !.conn = "closed", !.got = outcome.kind,
                                                     !.at = "select"])
            /\ UNCHANGED <<cache, favicons, bookmarks, historyStack, choices, pc, lastCall,
                           lastLoaded>>
       ELSE \* db.close(); setHint(""); cache.favicons = b64Data; cache.write()
            /\ ~crash
            /\ lastLoaded' = Object(ResponseEntries(outcome.rows))
            /\ cache' = Persisted("rows", B64Data(outcome.rows))
            /\ Finish(t, Event(t, "rows", "returned", Closed(calls[t]),
                               B64Data(outcome.rows), outcome.rows), FALSE)

\* The database of task t cannot be opened (lines 147-151): the callback
\* throws outside the async function.  What follows is the runtime's and
\* the driver's: the uncaught exception ends the process ("crash"), or it is
\* swallowed and the driver fails the queued query ("reject") or never runs
\* it ("hang").
OpenError(t, fate) ==
    /\ UNCHANGED <<root, cache, lastSelection, opened, net, undo, lastLoaded>>
    /\ pc # "crashed"
    /\ calls[t] # <<>>
    /\ Top(t).at = "db.all"
    /\ LET failed == [Top(t) EXCEPT !.conn = "none", !.got = "openError"] IN
       IF fate = "hang"
       THEN \* the promise never settles: the top level waits for ever; a
            \* handler that waits for ever does nothing more and is dropped
            /\ calls' = IF t = 0 THEN SetTop(t, [failed EXCEPT !.at = "never"])
                        ELSE [calls EXCEPT ![t] = <<>>]
            /\ UNCHANGED <<favicons, bookmarks, historyStack, choices, pc, lastCall>>
       ELSE Finish(t, Event(t, "openError", "failed",
                            [calls[t] EXCEPT ![Len(calls[t])] = failed], NoValue, <<>>),
                   fate = "crash")

\* lines 207-214: the lock prompt of task t resolved to "without"
ContinueWithout(t) ==
    /\ UNCHANGED <<root, lastSelection, opened, net, undo, lastLoaded>>
    /\ pc # "crashed"
    /\ calls[t] # <<>>
    /\ Top(t).at = "select"
    /\ cache' = Persisted("without", NewMap)
    /\ Finish(t, Event(t, "without", "returned", calls[t], NewMap, <<>>), FALSE)

RetryAllowsCached == TRUE

\* the allowCached argument of the retry: loadFavicons(faviconsDbFile, false)
RetryAllowCached == FALSE

\* lines 207-214: the lock prompt of task t resolved to "retry"
Retry(t) ==
    /\ UNCHANGED <<root, lastSelection, opened, net, undo, lastLoaded>>
    /\ pc # "crashed"
    /\ calls[t] # <<>>
    /\ Top(t).at = "select"
    /\ Len(calls[t]) <= MaxRetries
    /\ IF CacheHit(RetryAllowCached)
       THEN /\ cache' = cache
            /\ Finish(t, Event(t, "cached", "returned",
                               Append(calls[t], Frame(RetryAllowCached, TRUE)), cache, <<>>),
                      FALSE)
       ELSE /\ calls' = [calls EXCEPT ![t] =
                            Append([@ EXCEPT ![Len(@)].at = "retry"],
                                   Frame(RetryAllowCached, FALSE))]
            /\ UNCHANGED <<cache, favicons, bookmarks, historyStack, choices, pc, lastCall>>

\* the script is run again: lines 13-29 with the slot the last run left
Relaunch ==
    /\ pc \in {"done", "crashed"}
    /\ favicons' = NoValue
    /\ bookmarks' = Unset
    /\ historyStack' = <<>>
    /\ lastSelection' = NoSelection
    /\ choices' = <<>>
    /\ pc' = "startup"
    /\ calls' = Idle
    /\ opened' = <<>>
    /\ net' = 0
    /\ undo' = NoUndo
    /\ lastLoaded' = cache
    /\ UNCHANGED <<root, cache, lastCall>>

Next ==
    \/ Startup
    \/ \E i \in 1..Len(choices) : GoBack(i)
    \/ \E i \in 1..Len(choices) : Descend(i)
    \/ \E i \in 1..Len(choices) : Open(i)
    \/ PressShortcut
    \/ \E t \in Tasks, outcome \in Outcomes, crash \in BOOLEAN : QueryResult(t, outcome, crash)
    \/ \E t \in Tasks, fate \in {"crash", "reject", "hang"} : OpenError(t, fate)
    \/ \E t \in Tasks : ContinueWithout(t)
    \/ \E t \in Tasks : Retry(t)
    \/ Relaunch

Spec == Init /\ [][Next]_vars

TypeOK ==
    /\ pc \in {"startup", "arg", "done", "crashed"}
    /\ cache.type \in {"null", "object"}

(***************************************************************************)
(* Properties                                                              *)
(***************************************************************************)
InFlight == UNION {{calls[t][k] : k \in DOMAIN calls[t]} : t \in Tasks}
Completed == {lastCall.frames[k] : k \in DOMAIN lastCall.frames}
Retried == UNION {{calls[t][k] : k \in (DOMAIN calls[t]) \ {1}} : t \in Tasks}
               \cup {lastCall.frames[k] : k \in (DOMAIN lastCall.frames) \ {1}}

\* C1: a descend immediately followed by go-back leaves bookmarks the very
\* list (same reference, same elements, same order) it was before the
\* descend, and historyStack as it was before the descend.
C1_DescendThenBackRestores ==
    undo.state = "returned" =>
        /\ bookmarks = undo.bookmarks
        /\ Items(bookmarks) = Items(undo.bookmarks)
        /\ historyStack = undo.historyStack

C1_Witness ==
    /\ undo.state = "returned"
    /\ Len(historyStack) > 0
    /\ Len(Items(bookmarks)) > 1

\* C2: after the folder F offered in the current list is selected, the
\* previous list is on top of historyStack and bookmarks is F's own
\* children, whatever the names of F's siblings.
C2_DescendEntersSelectedFolder ==
    (undo.state = "descended" /\ pc = "arg") =>
        /\ historyStack = Append(undo.historyStack, undo.bookmarks)
        /\ bookmarks = ChildrenOf(lastSelection.id)
        /\ Items(bookmarks) = root.nodes[lastSelection.id].children

\* C3: the length of historyStack is the number of descends minus the
\* number of go-back selections of the run.
C3_HistoryLengthIsNetDescends == Len(historyStack) = net

C3_Witness ==
    /\ lastSelection.kind = "go-back"
    /\ net = 1
    /\ Len(historyStack) = 1

\* C4: the list built by buildChoices holds the go-back entry iff
\* historyStack is non-empty; it is then the first entry and the only one;
\* the other entries are the children of bookmarks, one each, in order.
C4_BackEntryIffHistory ==
    LET back == {i \in DOMAIN choices : choices[i].value.kind = "go-back"}
        items == Items(bookmarks)
        offset == IF Len(historyStack) > 0 THEN 1 ELSE 0
    IN /\ (back # {}) <=> (Len(historyStack) > 0)
       /\ back \subseteq {1}
       /\ Len(choices) = offset + Len(items)
       /\ \A k \in DOMAIN items : choices[offset + k].value = ItemValue(items[k])

C4_Witness ==
    /\ pc = "arg"
    /\ Len(historyStack) > 0
    /\ Len(choices) > 2
    /\ choices[1].value.kind = "go-back"

\* C5: go-back is never processed on an empty historyStack: the go-backs of
\* a run never outnumber its descends, and bookmarks is never the undefined
\* that popping an empty array yields.
C5_NoBackOnEmptyHistory ==
    /\ net >= 0
    /\ bookmarks.kind # "undefined"
    /\ pc = "arg" => bookmarks.kind \in {"children", "literal"}

\* a handler of the refresh shortcut has rebuilt the list, and go-back was taken
C5_Witness ==
    /\ lastSelection.kind = "go-back"
    /\ lastCall.how \in {"rows", "without"}
    /\ ~lastCall.frames[1].allowCached
    /\ pc = "arg"

\* C6: a load with caching allowed that finds the slot holding a map returns
\* that map and touches the store in no way (no connection, no query).
C6_CachedLoadSkipsStore ==
    /\ \A f \in InFlight : ~(f.allowCached /\ f.hadCache)
    /\ \A f \in Completed :
        (f.allowCached /\ f.hadCache) =>
            /\ f.queries = 0
            /\ f.conn = "none"
            /\ lastCall.how = "cached"
            /\ lastCall.status = "returned"
            /\ lastCall.result.type = "object"
            /\ lastCall.result = lastCall.slotBefore
            /\ lastCall.result = cache

\* two such loads in a row
C6_Witness ==
    /\ lastCall.how = "cached"
    /\ lastCall.prev.how = "cached"
    /\ lastCall.frames[1].queries = 0

C8_ContinueWithoutKeepsSlot ==
    /\ lastCall.how = "without" =>
        /\ lastCall.status = "returned"
        /\ lastCall.result.entries = NoEntries
        /\ cache = lastCall.slotBefore
    /\ (lastCall.how = "cached" /\ lastCall.prev.how = "without") =>
        /\ lastCall.result = lastCall.prev.slot
        /\ lastCall.result.type = "object"

C8_Witness ==
    /\ lastCall.how = "cached"
    /\ lastCall.prev.how = "without"
    /\ lastCall.result.entries # NoEntries

\* C9: a Retry queries the store again with caching disallowed; when an
\* attempt succeeds, the whole load returns that response's mapping and the
\* slot holds it.
C9_RetryThenSuccessPersists ==
    /\ \A f \in Retried : ~f.allowCached /\ f.queries = 1
    /\ lastCall.how = "rows" =>
        /\ lastCall.status = "returned"
        /\ lastCall.result = Object(ResponseEntries(lastCall.rows))
        /\ cache = lastCall.result

C9_Witness ==
    /\ lastCall.how = "rows"
    /\ Len(lastCall.frames) > 1
    /\ lastCall.rows # <<>>
    /\ lastCall.frames[1].hadCache

\* C10: a query error other than busy fails the load: the load delivers no
\* mapping, the lock prompt is not shown for it and no further query is
\* made for it, and the slot is not written.
C10_FatalErrorPropagates ==
    /\ \A f \in InFlight : f.got # "error"
    /\ \A f \in Completed :
        f.got = "error" =>
            /\ lastCall.how = "error"
            /\ lastCall.status = "failed"
            /\ lastCall.result = NoValue
            /\ cache = lastCall.slotBefore
            /\ f.at = "db.all"
            /\ f = lastCall.frames[Len(lastCall.frames)]
            /\ lastCall.frames[1].allowCached => favicons = NoValue

C10_Witness ==
    /\ lastCall.how = "error"
    /\ lastCall.status = "failed"
    /\ pc = "arg"
    /\ cache.type = "object"

\* C11: every connection loadFavicons opened is closed on every path out of
\* the query: a frame that waits at the lock prompt or at its retry, and
\* every frame of a load that has returned or failed in the running
\* process (the list is up: the last load is one of this run), holds no
\* open connection.
C11_ConnectionAlwaysClosed ==
    /\ \A f \in InFlight : f.at \in {"select", "retry"} => f.conn # "open"
    /\ pc \in {"arg", "done"} => \A f \in Completed : f.conn # "open"

\* C12: the slot holds the value it had at the start of the run or, once a
\* query has succeeded, the mapping of the most recent successful query;
\* "Continue without", a Locked response and a failed query leave it alone.
C12_SlotIsStartOrLastSuccess ==
    /\ cache = lastLoaded
    /\ lastCall.how \in {"without", "error", "openError"} => cache = lastCall.slotBefore

\* a refresh has replaced the slot of the start-up, and the load after it
\* was degraded or failed
C12_Witness ==
    /\ pc = "arg"
    /\ favicons.type = "object"
    /\ favicons # cache
    /\ cache.entries # NoEntries
    /\ lastCall.how \in {"without", "error"}

\* the values of the entries of the level the user is at
LevelValues ==
    (IF Len(historyStack) > 0 THEN <<GoBackValue>> ELSE <<>>)
    \o [k \in DOMAIN Items(bookmarks) |-> ItemValue(Items(bookmarks)[k])]

IsLink(selection) ==
    selection.kind = "item" /\ root.nodes[selection.id].type = "url"

\* C14: selecting a link leaves bookmarks and historyStack as they are,
\* hands that link's URL to the opener exactly once and ends the loop; the
\* loop ends in no other way: after a go-back or a folder selection the
\* list is shown again.
C14_LinkOpensOnceAndEnds ==
    /\ [](/\ Len(opened) <= 1
          /\ pc = "done" => IsLink(lastSelection)
          /\ IsLink(lastSelection) =>
                /\ pc \in {"done", "crashed"}
                /\ opened = <<root.nodes[lastSelection.id].url>>
          /\ ~IsLink(lastSelection) => opened = <<>> /\ pc # "done")
    /\ [][/\ (opened' # opened /\ pc' # "startup") =>
                /\ IsLink(lastSelection')
                /\ \E i \in DOMAIN choices : choices[i].value = lastSelection'
                /\ bookmarks' = bookmarks
                /\ historyStack' = historyStack
                /\ pc' = "done"
          /\ (net' # net /\ pc' # "startup") => pc' = "arg"]_vars

\* a link opened below the root
C14_Witness ==
    /\ pc = "done"
    /\ Len(historyStack) > 0
    /\ IsLink(lastSelection)
    /\ Len(opened) = 1

\* C15: after the selection of a folder that has no children the list is
\* the go-back entry alone, and go-back from there brings back the list of
\* the parent.
C15_EmptyFolderShowsOnlyBack ==
    /\ (undo.state = "descended" /\ pc = "arg"
            /\ root.nodes[lastSelection.id].children = <<>>) =>
            /\ Len(choices) = 1
            /\ choices[1].value = GoBackValue
    /\ (undo.state = "returned" /\ pc = "arg") =>
            /\ Items(bookmarks) = Items(undo.bookmarks)
            /\ [k \in DOMAIN choices |-> choices[k].value] = LevelValues

\* C16: once the list is up, historyStack is empty iff bookmarks is the
\* children list of the root folder (the same array, and the same elements).
C16_HistoryEmptyIffAtRoot ==
    bookmarks.kind # "unset" =>
        /\ (historyStack = <<>>) <=> (bookmarks = ChildrenOf(0))
        /\ (historyStack = <<>>) <=> (Items(bookmarks) = root.bookmark_bar)

\* back at the root after a descend
C16_Witness ==
    /\ pc = "arg"
    /\ lastSelection.kind = "go-back"
    /\ net = 0
    /\ historyStack = <<>>
    /\ bookmarks = ChildrenOf(0)

\* C17: once a refresh has ended with a successful query, every list shown
\* carries for each link the image the newly loaded mapping holds for that
\* link's URL.
C17_RefreshedImagesShown ==
    (pc = "arg" /\ lastCall.caller = "shortcut" /\ lastCall.how = "rows") =>
        \A k \in DOMAIN choices :
            IsLink(choices[k].value) =>
                choices[k].img = Lookup(lastCall.result,
                                        root.nodes[choices[k].value.id].url)

\* C18: a Locked response never fails the load: the frame that got it goes
\* to the lock prompt; and inside one load every query after the first
\* belongs to a frame pushed by a "Retry" answer to the prompt of the
\* frame below it, which had got Locked.
C18_LockedLeadsToPrompt ==
    /\ \A f \in InFlight : f.got = "busy" => f.at \in {"select", "retry"}
    /\ lastCall.how # "busy"
    /\ lastCall.status = "failed" =>
            lastCall.frames[Len(lastCall.frames)].got \in {"error", "openError"}
    /\ lastCall.how = "without" =>
            /\ lastCall.frames[Len(lastCall.frames)].got = "busy"
            /\ lastCall.frames[Len(lastCall.frames)].at = "select"
    /\ \A t \in Tasks : \A k \in (DOMAIN calls[t]) \ {1} :
            /\ calls[t][k - 1].got = "busy"
            /\ calls[t][k - 1].at = "retry"
            /\ calls[t][k - 1].conn = "closed"
    /\ \A k \in (DOMAIN lastCall.frames) \ {1} :
            /\ lastCall.frames[k - 1].got = "busy"
            /\ lastCall.frames[k - 1].at = "retry"

\* the load of the start-up got Locked, was retried and then succeeded
C18_Witness ==
    /\ lastCall.caller = "startup"
    /\ lastCall.how = "rows"
    /\ Len(lastCall.frames) = 2
    /\ lastCall.frames[1].got = "busy"
    /\ lastCall.frames[2].got = "rows"

\* C19: at most one load is in progress at any time; while the load of a
\* shortcut handler is waiting (for the query or for the lock prompt) no
\* other load starts and the loop processes no selection: bookmarks,
\* historyStack, lastSelection and the opened URLs stay as they are.
C19_OneLoadAtATime ==
    /\ [](Cardinality({t \in Tasks : calls[t] # <<>>}) <= 1)
    /\ [][((\E h \in Handlers : calls[h] # <<>>) /\ pc' # "startup") =>
            /\ \A g \in Tasks : calls[g] = <<>> => calls'[g] = <<>>
            /\ lastSelection' = lastSelection
            /\ bookmarks' = bookmarks
            /\ historyStack' = historyStack
            /\ opened' = opened]_vars

\* C20: once the list is up, historyStack followed by bookmarks is a path
\* of the tree: it starts with the children list of the root folder, and
\* each later member is the children list of a folder that is an element
\* of the member before it.
C20_NavigationIsTreePath ==
    bookmarks.kind # "unset" =>
        LET path == Append(historyStack, bookmarks) IN
        /\ path[1] = ChildrenOf(0)
        /\ \A k \in 2..Len(path) :
            /\ path[k].kind = "children"
            /\ \E j \in DOMAIN Items(path[k - 1]) :
                /\ Items(path[k - 1])[j] = path[k].owner
                /\ root.nodes[path[k].owner].type = "folder"

====
